---- MODULE Spec2Model ----
(***************************************************************************)
(* A model of kubeapply's helper scripts:                                  *)
(*   scripts/pretty_diff.py            main, diff_files, get_lines         *)
(*   scripts/cluster-summary/cluster_summary.py   pretty_table             *)
(*                                                                         *)
(* A Python str is a sequence of one-character strings, so that slicing,   *)
(* startswith, rstrip, split, replace and '%d' formatting are computed and *)
(* not assumed.                                                            *)
(***************************************************************************)
EXTENDS Integers, Sequences, FiniteSets, TLC

VARIABLES
    \* get_lines (one call, stepped line by line)
    input_file,             \* the lines the open file yields
    pos,                    \* how many of them the for loop has consumed
    inside_managed_fields,  \* get_lines' local flag
    lines,                  \* get_lines' local result list
    origin,                 \* history: origin[k] = index of the input line behind lines[k]
    \* main / diff_files
    strip_managed_fields,   \* STRIP_MANAGED_FIELDS == 'true'
    use_colors,             \* USE_COLORS == 'true'
    old_names,              \* relative names under old_root
    new_names,              \* relative names under new_root
    todo,                   \* names the loop over old_names | new_names has not visited
    diff_pairs,             \* main's list of (name, old_path, new_path)
    pc,                     \* main's position
    calls,                  \* history: one record per diff_files call
    stdout,                 \* the lines print() has written
    \* pretty_table
    text,                   \* pretty_table's argument
    tabulated               \* the arguments of the tabulate calls whose result is printed

vars == << input_file, pos, inside_managed_fields, lines, origin,
           strip_managed_fields, use_colors, old_names, new_names, todo,
           diff_pairs, pc, calls, stdout, text, tabulated >>

filter_vars == << input_file, pos, inside_managed_fields, lines, origin >>
main_vars   == << use_colors, old_names, new_names, todo, diff_pairs, calls >>

(***************************************************************************)
(* Bounds of the model.                                                    *)
(***************************************************************************)
MaxFileLines == 3     \* lines of the file get_lines is stepped over
MaxNames     == 2     \* names in old_names | new_names of one run of main
MaxDiffLines == 5     \* lines of each file of the diff-only specification
MaxTextLen   == 5     \* pieces of the text handed to pretty_table

(***************************************************************************)
(* Strings.                                                                *)
(***************************************************************************)
NL == "\n"

Repeat(c, n) == [ i \in 1..n |-> c ]

\* str.startswith(prefix)
StartsWith(s, prefix) ==
    /\ Len(s) >= Len(prefix)
    /\ SubSeq(s, 1, Len(prefix)) = prefix

\* s[0:n]
Slice0(s, n) == SubSeq(s, 1, IF n < Len(s) THEN n ELSE Len(s))

Digits == << "0", "1", "2", "3", "4", "5", "6", "7", "8", "9" >>

\* '%d' % n, for n >= 0
RECURSIVE Dec(_)
Dec(n) == IF n < 10 THEN << Digits[n + 1] >>
          ELSE Dec(n \div 10) \o << Digits[(n % 10) + 1] >>

Whitespace == { " ", "\n", "\t", "\r" }

\* str.rstrip()
RECURSIVE rstrip(_)
rstrip(s) == IF s /= << >> /\ s[Len(s)] \in Whitespace
             THEN rstrip(SubSeq(s, 1, Len(s) - 1))
             ELSE s

\* Code points of the characters that occur in names.
Ord(c) == CASE c = "/" -> 47
            [] c = "B" -> 66
            [] c = "a" -> 97
            [] c = "b" -> 98
            [] OTHER   -> 0

\* Python's str <: code point lexicographic, a proper prefix is smaller
RECURSIVE StrLess(_, _)
StrLess(s, t) ==
    IF t = << >> THEN FALSE
    ELSE IF s = << >> THEN TRUE
    ELSE IF Ord(s[1]) /= Ord(t[1]) THEN Ord(s[1]) < Ord(t[1])
    ELSE StrLess(Tail(s), Tail(t))

(***************************************************************************)
(* pretty_diff.py: constants.                                              *)
(***************************************************************************)
MAX_LINE_LEN == 256

OKBLUE  == << "\\033[94m" >>
OKGREEN == << "\\033[92m" >>
FAIL    == << "\\033[91m" >>
ENDC    == << "\\033[0m" >>

\* Python's None for an absent path; os.path.join(root, name) is never empty
None == << >>

(***************************************************************************)
(* get_lines.                                                              *)
(***************************************************************************)
ManagedFieldsMarker ==
    << " ", " ", "m", "a", "n", "a", "g", "e", "d", "F", "i", "e", "l", "d", "s", ":" >>

\* line.startswith('  managedFields:')
IsBlockStart(line) == StartsWith(line, ManagedFieldsMarker)

\* line.startswith('  -') or line.startswith('   ')
\* (variant: the three-space test left out)
IsContinuationMutBulletOnly(line) == StartsWith(line, << " ", " ", "-" >>)
IsContinuation(line) ==
    \/ StartsWith(line, << " ", " ", "-" >>)
    \/ StartsWith(line, << " ", " ", " " >>)

\* '... (%d chars omitted)' % n
OmittedMarker(n) ==
    << ".", ".", ".", " ", "(" >> \o Dec(n)
        \o << " ", "c", "h", "a", "r", "s", " ", "o", "m", "i", "t", "t", "e", "d", ")" >>

\* the 'Trim very long lines' branch: what is appended for a kept line
\* (variants: >= for >, and a slice one character too long)
TruncateMutGeq(line) ==
    IF Len(line) >= MAX_LINE_LEN
    THEN Slice0(line, MAX_LINE_LEN) \o OmittedMarker(Len(line) - MAX_LINE_LEN)
    ELSE line
TruncateMutSlice(line) ==
    IF Len(line) > MAX_LINE_LEN
    THEN Slice0(line, MAX_LINE_LEN + 1) \o OmittedMarker(Len(line) - MAX_LINE_LEN)
    ELSE line
Truncate(line) ==
    IF Len(line) > MAX_LINE_LEN
    THEN Slice0(line, MAX_LINE_LEN) \o OmittedMarker(Len(line) - MAX_LINE_LEN)
    ELSE line

\* One iteration of get_lines' for loop, on the loop state
\* st = [inside |-> inside_managed_fields, lines |-> lines, origin |-> history]
\* and the idx-th line of the file.
LineStep(st, line, idx, strip) ==
    LET start  == strip /\ IsBlockStart(line)
        inside == IF ~strip THEN st.inside
                  ELSE IF start THEN TRUE
                  ELSE IF st.inside THEN IsContinuation(line)
                  ELSE FALSE
        keep   == IF ~strip THEN TRUE
                  ELSE IF start THEN FALSE
                  ELSE IF st.inside THEN ~IsContinuation(line)
                  ELSE TRUE
    IN  [ inside |-> inside,
          lines  |-> IF keep THEN Append(st.lines, Truncate(line)) ELSE st.lines,
          origin |-> IF keep THEN Append(st.origin, idx) ELSE st.origin ]

LineStart == [ inside |-> FALSE, lines |-> << >>, origin |-> << >> ]

RECURSIVE LineFold(_, _, _)
LineFold(file, n, strip) ==
    IF n = 0 THEN LineStart
    ELSE LineStep(LineFold(file, n - 1, strip), file[n], n, strip)

\* get_lines(path, strip_managed_fields), for a file holding the lines `file`
get_lines(file, strip) == LineFold(file, Len(file), strip).lines

(***************************************************************************)
(* Inputs of the get_lines specification.                                  *)
(***************************************************************************)
LongLine(n, tail) ==
    [ i \in 1..n |-> IF i <= MAX_LINE_LEN THEN "x" ELSE IF i = n THEN NL ELSE tail ]

FilterLinePool ==
    { ManagedFieldsMarker \o << NL >>,
      ManagedFieldsMarker,
      ManagedFieldsMarker \o << " ", "{", "}", NL >>,
      << " ", " ", "-", " ", "f", "o", "o", NL >>,
      << " ", " ", " ", "b", "a", "r", NL >>,
      << " ", " ", "n", "a", "m", "e", ":", " ", "x", NL >>,
      Repeat("x", MAX_LINE_LEN),
      LongLine(MAX_LINE_LEN + 1, "x"),
      LongLine(MAX_LINE_LEN + 3, "x"),
      LongLine(MAX_LINE_LEN + 3, "y"),
      LongLine(MAX_LINE_LEN + 22, "x") }

\* the lines of the example of the managed fields block, and the same file
\* with a second block that runs to the end of the file
ExampleFile ==
    << ManagedFieldsMarker \o << NL >>,
       << " ", " ", "-", " ", "f", "o", "o", NL >>,
       << " ", " ", " ", "b", "a", "r", NL >>,
       << " ", " ", "n", "a", "m", "e", ":", " ", "x", NL >> >>

ExampleFiles ==
    { ExampleFile,
      ExampleFile \o << ManagedFieldsMarker \o << NL >>,
                        << " ", " ", "-", " ", "f", "o", "o" >> >> }

\* Only the last line of a file can lack its terminator.
IsFile(f) == \A i \in 1..(Len(f) - 1) : f[i][Len(f[i])] = NL

RECURSIVE SeqsUpTo(_, _)
SeqsUpTo(S, n) ==
    IF n = 0 THEN { << >> }
    ELSE LET shorter == SeqsUpTo(S, n - 1)
         IN  shorter \cup { Append(s, x) : s \in { t \in shorter : Len(t) = n - 1 }, x \in S }

(***************************************************************************)
(* difflib.SequenceMatcher(None, a, b), as diff_files uses it through      *)
(* difflib.unified_diff.  Indices are Python's: 0-based, ranges half-open. *)
(* The autojunk heuristic only acts on sequences of 200 or more lines and  *)
(* no junk function is given, so every line of b is indexed in b2j.        *)
(***************************************************************************)
At(s, i) == s[i + 1]
Max(x, y) == IF x > y THEN x ELSE y
Min(x, y) == IF x < y THEN x ELSE y

\* j2len[j] after row i: the length of the common run that ends at a[i], b[j]
RECURSIVE RunLen(_, _, _, _, _, _)
RunLen(a, b, i, j, alo, blo) ==
    IF At(a, i) /= At(b, j) THEN 0
    ELSE IF i > alo /\ j > blo THEN 1 + RunLen(a, b, i - 1, j - 1, alo, blo)
    ELSE 1

\* find_longest_match(alo, ahi, blo, bhi): << i, j, k >>; the first run, in
\* the order of the loops over i and j, that is longer than all before it
find_longest_match(a, b, alo, ahi, blo, bhi) ==
    LET ends == { e \in (alo..(ahi - 1)) \X (blo..(bhi - 1)) :
                    RunLen(a, b, e[1], e[2], alo, blo) > 0 }
        len(e) == RunLen(a, b, e[1], e[2], alo, blo)
    IN  IF ends = { } THEN << alo, blo, 0 >>
        ELSE LET k    == CHOOSE n \in { len(e) : e \in ends } :
                            \A e \in ends : len(e) <= n
                 best == { e \in ends : len(e) = k }
                 e0   == CHOOSE e \in best :
                            \A f \in best : e[1] < f[1] \/ (e[1] = f[1] /\ e[2] <= f[2])
             IN  << e0[1] - k + 1, e0[2] - k + 1, k >>

\* the blocks get_matching_blocks finds and sorts
RECURSIVE MatchingBlocksIn(_, _, _, _, _, _)
MatchingBlocksIn(a, b, alo, ahi, blo, bhi) ==
    LET x == find_longest_match(a, b, alo, ahi, blo, bhi)
        i == x[1]
        j == x[2]
        k == x[3]
    IN  IF k = 0 THEN << >>
        ELSE (IF alo < i /\ blo < j
              THEN MatchingBlocksIn(a, b, alo, i, blo, j) ELSE << >>)
             \o << x >>
             \o (IF i + k < ahi /\ j + k < bhi
                 THEN MatchingBlocksIn(a, b, i + k, ahi, j + k, bhi) ELSE << >>)

\* get_matching_blocks' pass that merges adjacent blocks
RECURSIVE Collapse(_, _, _)
Collapse(blocks, cur, acc) ==
    IF blocks = << >>
    THEN IF cur[3] /= 0 THEN Append(acc, cur) ELSE acc
    ELSE LET nxt == Head(blocks)
         IN  IF cur[1] + cur[3] = nxt[1] /\ cur[2] + cur[3] = nxt[2]
             THEN Collapse(Tail(blocks), << cur[1], cur[2], cur[3] + nxt[3] >>, acc)
             ELSE Collapse(Tail(blocks), nxt,
                           IF cur[3] /= 0 THEN Append(acc, cur) ELSE acc)

get_matching_blocks(a, b) ==
    Append(Collapse(MatchingBlocksIn(a, b, 0, Len(a), 0, Len(b)), << 0, 0, 0 >>, << >>),
           << Len(a), Len(b), 0 >>)

Op(tag, i1, i2, j1, j2) == [ tag |-> tag, i1 |-> i1, i2 |-> i2, j1 |-> j1, j2 |-> j2 ]

RECURSIVE OpcodesFrom(_, _, _, _)
OpcodesFrom(blocks, i, j, answer) ==
    IF blocks = << >> THEN answer
    ELSE LET ai   == Head(blocks)[1]
             bj   == Head(blocks)[2]
             size == Head(blocks)[3]
             tag  == IF i < ai /\ j < bj THEN "replace"
                     ELSE IF i < ai THEN "delete"
                     ELSE IF j < bj THEN "insert"
                     ELSE ""
             a1   == IF tag /= "" THEN Append(answer, Op(tag, i, ai, j, bj)) ELSE answer
             a2   == IF size /= 0
                     THEN Append(a1, Op("equal", ai, ai + size, bj, bj + size))
                     ELSE a1
         IN  OpcodesFrom(Tail(blocks), ai + size, bj + size, a2)

get_opcodes(a, b) == OpcodesFrom(get_matching_blocks(a, b), 0, 0, << >>)

\* unified_diff's default n
ContextSize == 3

\* get_grouped_opcodes: the codes with the leading and the trailing equal trimmed
TrimEnds(codes0, n) ==
    LET codes == IF codes0 = << >> THEN << Op("equal", 0, 1, 0, 1) >> ELSE codes0
        c1 == IF codes[1].tag = "equal"
              THEN [ codes EXCEPT ![1] =
                        Op("equal", Max(@.i1, @.i2 - n), @.i2, Max(@.j1, @.j2 - n), @.j2) ]
              ELSE codes
        m  == Len(c1)
    IN  IF c1[m].tag = "equal"
        THEN [ c1 EXCEPT ![m] =
                  Op("equal", @.i1, Min(@.i2, @.i1 + n), @.j1, Min(@.j2, @.j1 + n)) ]
        ELSE c1

\* get_grouped_opcodes' last test: is the group left after the loop yielded
\* (variant: a lone equal group is yielded too)
YieldsLastGroupMutAlways(group) == group /= << >>
YieldsLastGroup(group) ==
    group /= << >> /\ ~(Len(group) = 1 /\ group[1].tag = "equal")

\* get_grouped_opcodes' loop: groups yielded so far, and the group being built
RECURSIVE GroupLoop(_, _, _, _)
GroupLoop(codes, n, groups, group) ==
    IF codes = << >>
    THEN IF YieldsLastGroup(group) THEN Append(groups, group) ELSE groups
    ELSE LET c == Head(codes)
         IN  IF c.tag = "equal" /\ c.i2 - c.i1 > n + n
             THEN GroupLoop(Tail(codes), n,
                      Append(groups,
                             Append(group, Op("equal", c.i1, Min(c.i2, c.i1 + n),
                                              c.j1, Min(c.j2, c.j1 + n)))),
                      << Op("equal", Max(c.i1, c.i2 - n), c.i2,
                            Max(c.j1, c.j2 - n), c.j2) >>)
             ELSE GroupLoop(Tail(codes), n, groups, Append(group, c))

get_grouped_opcodes(a, b, n) == GroupLoop(TrimEnds(get_opcodes(a, b), n), n, << >>, << >>)

(***************************************************************************)
(* difflib.unified_diff(a, b, fromfile, tofile): the lines it yields, each *)
(* with its kind and the number of its hunk (0 for the file header).       *)
(***************************************************************************)
DiffLine(kind, hunk, txt) == [ kind |-> kind, hunk |-> hunk, text |-> txt ]

\* _format_range_unified(start, stop)
FormatRange(start, stop) ==
    LET length == stop - start
    IN  IF length = 1 THEN Dec(start + 1)
        ELSE Dec(IF length = 0 THEN start ELSE start + 1) \o << "," >> \o Dec(length)

\* '@@ -{} +{} @@\n'
HunkHeader(group) ==
    LET first == group[1]
        last  == group[Len(group)]
    IN  << "@", "@", " ", "-" >> \o FormatRange(first.i1, last.i2)
          \o << " ", "+" >> \o FormatRange(first.j1, last.j2)
          \o << " ", "@", "@", NL >>

\* s[lo:hi] (a slice ends with the list), each line behind a prefix character
Prefixed(kind, h, c, s, lo, hi) ==
    [ k \in 1..(Min(hi, Len(s)) - lo) |-> DiffLine(kind, h, << c >> \o At(s, lo + k - 1)) ]

\* the lines unified_diff yields for one opcode of hunk h
\* (variant: the lines of b are left out)
OpLinesMutNoInsert(a, b, h, op) ==
    IF op.tag = "equal" THEN Prefixed("context", h, " ", a, op.i1, op.i2)
    ELSE IF op.tag \in { "replace", "delete" }
         THEN Prefixed("delete", h, "-", a, op.i1, op.i2) ELSE << >>
OpLines(a, b, h, op) ==
    IF op.tag = "equal" THEN Prefixed("context", h, " ", a, op.i1, op.i2)
    ELSE (IF op.tag \in { "replace", "delete" }
          THEN Prefixed("delete", h, "-", a, op.i1, op.i2) ELSE << >>)
         \o (IF op.tag \in { "replace", "insert" }
             THEN Prefixed("insert", h, "+", b, op.j1, op.j2) ELSE << >>)

RECURSIVE GroupBody(_, _, _, _, _)
GroupBody(a, b, h, group, k) ==
    IF k > Len(group) THEN << >>
    ELSE OpLines(a, b, h, group[k]) \o GroupBody(a, b, h, group, k + 1)

RECURSIVE HunksFrom(_, _, _, _)
HunksFrom(a, b, groups, h) ==
    IF h > Len(groups) THEN << >>
    ELSE << DiffLine("hunk", h, HunkHeader(groups[h])) >>
         \o GroupBody(a, b, h, groups[h], 1)
         \o HunksFrom(a, b, groups, h + 1)

ApiServer    == << "a", "p", "i", "-", "s", "e", "r", "v", "e", "r" >>
LocalConfigs == << "l", "o", "c", "a", "l", "-", "c", "o", "n", "f", "i", "g", "s" >>

\* os.path.join(root, name), for a relative name
PathJoin(root, name) == root \o << "/" >> \o name

unified_diff(a, b, name) ==
    LET groups == get_grouped_opcodes(a, b, ContextSize)
    IN  IF groups = << >> THEN << >>
        ELSE << DiffLine("fromfile", 0,
                         << "-", "-", "-", " " >> \o PathJoin(ApiServer, name) \o << NL >>),
                DiffLine("tofile", 0,
                         << "+", "+", "+", " " >> \o PathJoin(LocalConfigs, name) \o << NL >>) >>
             \o HunksFrom(a, b, groups, 1)

(***************************************************************************)
(* diff_files.                                                             *)
(***************************************************************************)
\* the body of `for line in diff`: what is printed for one line of the diff
\* (no line, or one)
PrintedFor(txt, colors) ==
    LET line == rstrip(txt)
    IN  IF StartsWith(line, << "+" >>)
        THEN << IF colors THEN OKGREEN \o line \o ENDC ELSE line >>
        ELSE IF StartsWith(line, << "-" >>)
        THEN << IF colors THEN FAIL \o line \o ENDC ELSE line >>
        ELSE IF StartsWith(line, << "^" >>)
        THEN << IF colors THEN OKBLUE \o line \o ENDC ELSE line >>
        ELSE IF Len(line) > 0 THEN << line >>
        ELSE << >>

RECURSIVE Flatten(_)
Flatten(ss) == IF ss = << >> THEN << >> ELSE Head(ss) \o Flatten(Tail(ss))

\* diff_files(name, old_path, new_path, use_colors, strip_managed_fields), where
\* old_file and new_file are the lines the files at the two paths hold
diff_files(name, old_path, new_path, old_file, new_file, colors, strip) ==
    LET old_l == IF old_path /= None THEN get_lines(old_file, strip) ELSE << >>
        new_l == IF new_path /= None THEN get_lines(new_file, strip) ELSE << >>
        diff  == unified_diff(old_l, new_l, name)
    IN  [ name      |-> name,
          old_path  |-> old_path,
          new_path  |-> new_path,
          old_lines |-> old_l,
          new_lines |-> new_l,
          groups    |-> get_grouped_opcodes(old_l, new_l, ContextSize),
          diff      |-> diff,
          printed   |-> [ k \in 1..Len(diff) |-> PrintedFor(diff[k].text, colors) ] ]

(***************************************************************************)
(* main.                                                                   *)
(***************************************************************************)
OldRoot == << "o", "l", "d" >>
NewRoot == << "n", "e", "w" >>

\* the tuple the loop over old_names | new_names appends for a name
\* (variant: None on the wrong side for a name in one tree only)
MakePairMutSwapped(name, olds, news) ==
    IF name \in news /\ name \in olds
    THEN [ name |-> name, old_path |-> PathJoin(OldRoot, name), new_path |-> PathJoin(NewRoot, name) ]
    ELSE IF name \in news
    THEN [ name |-> name, old_path |-> PathJoin(OldRoot, name), new_path |-> None ]
    ELSE [ name |-> name, old_path |-> None, new_path |-> PathJoin(NewRoot, name) ]
MakePair(name, olds, news) ==
    IF name \in news /\ name \in olds
    THEN [ name |-> name, old_path |-> PathJoin(OldRoot, name), new_path |-> PathJoin(NewRoot, name) ]
    ELSE IF name \in news
    THEN [ name |-> name, old_path |-> None, new_path |-> PathJoin(NewRoot, name) ]
    ELSE [ name |-> name, old_path |-> PathJoin(OldRoot, name), new_path |-> None ]

\* list.sort(key=lambda r: r[0]): stable, so an insertion sort gives its result
RECURSIVE InsertSorted(_, _)
InsertSorted(sorted, p) ==
    IF sorted = << >> THEN << p >>
    ELSE IF StrLess(p.name, sorted[Len(sorted)].name)
         THEN Append(InsertSorted(SubSeq(sorted, 1, Len(sorted) - 1), p), sorted[Len(sorted)])
         ELSE Append(sorted, p)

RECURSIVE SortedPrefix(_, _)
SortedPrefix(pairs, n) ==
    IF n = 0 THEN << >> ELSE InsertSorted(SortedPrefix(pairs, n - 1), pairs[n])

\* (variant: the list left in the order of the set iteration)
SortPairsMutNoSort(pairs) == pairs
SortPairs(pairs) == SortedPrefix(pairs, Len(pairs))

(***************************************************************************)
(* cluster_summary.py: pretty_table.                                       *)
(***************************************************************************)
\* str.split(sep) for a separator of one character
RECURSIVE SplitFrom(_, _, _)
SplitFrom(s, sep, cur) ==
    IF s = << >> THEN << cur >>
    ELSE IF Head(s) = sep THEN << cur >> \o SplitFrom(Tail(s), sep, << >>)
    ELSE SplitFrom(Tail(s), sep, Append(cur, Head(s)))

Split(s, sep) == SplitFrom(s, sep, << >>)

\* str.replace(old, new), old not empty
RECURSIVE Replace(_, _, _)
Replace(s, old, new) ==
    IF s = << >> THEN << >>
    ELSE IF StartsWith(s, old)
         THEN new \o Replace(SubSeq(s, Len(old) + 1, Len(s)), old, new)
         ELSE << Head(s) >> \o Replace(Tail(s), old, new)

NodeSelector  == << "N", "O", "D", "E", " ", "S", "E", "L", "E", "C", "T", "O", "R" >>
NodeSelector1 == << "N", "O", "D", "E", "_", "S", "E", "L", "E", "C", "T", "O", "R" >>
NoneFound     == << "N", "o", "n", "e", " ", "f", "o", "u", "n", "d", NL >>

\* [c for c in line.split(' ') if c != '']
Components(line) == SelectSeq(Split(line, " "), LAMBDA c : c /= << >>)

\* split_lines after the first l lines of text.split('\n')
RECURSIVE SplitLines(_, _)
SplitLines(ls, l) ==
    IF l = 0 THEN << >>
    ELSE LET line == ls[l]
         IN  IF line = << >> THEN SplitLines(ls, l - 1)
             ELSE Append(SplitLines(ls, l - 1),
                         Components(IF l = 1 THEN Replace(line, NodeSelector, NodeSelector1)
                                    ELSE line))

\* if len(split_lines) == 0
\* (variant: a header row alone counts as nothing found)
NothingFoundMutHeaderOnly(split_lines) == Len(split_lines) <= 1
NothingFound(split_lines) == Len(split_lines) = 0

\* pretty_table(text): what it prints, and what it hands to tabulate
pretty_table(t) ==
    LET ls          == Split(t, NL)
        split_lines == SplitLines(ls, Len(ls))
    IN  IF NothingFound(split_lines)
        THEN [ out |-> << NoneFound >>, tab |-> << >> ]
        ELSE [ out |-> << << >> >>,
               tab |-> << [ rows      |-> Tail(split_lines),
                            headers   |-> Head(split_lines),
                            showindex |-> TRUE ] >> ]

(***************************************************************************)
(* Inputs.                                                                 *)
(***************************************************************************)
LineA     == << "a", NL >>
LineB     == << "b", NL >>
LineBlank == << NL >>

NamePool == { << "B" >>, << "a" >>, << "a", "/", "b" >> }

\* the files a tree can hold in a run of main
RawFiles ==
    { << >>,
      << LineA, LineBlank >>,
      << LineB, LineBlank >>,
      << ManagedFieldsMarker \o << NL >>, << " ", " ", "-", " ", "x", NL >>, LineA, LineBlank >> }

\* the files of the diff-only runs: every file of two kinds of line up to
\* MaxDiffLines lines, and two files far enough apart in the middle for two hunks
DiffFiles ==
    SeqsUpTo({ LineA, LineB }, MaxDiffLines)
      \cup { << LineB >> \o Repeat(LineA, 7) \o << LineB >>, Repeat(LineA, 9) }

TextPieces ==
    { << " " >>, << NL >>, << "x" >>, << "N", "A", "M", "E" >>, NodeSelector }

RECURSIVE Concat(_)
Concat(ss) == IF ss = << >> THEN << >> ELSE Head(ss) \o Concat(Tail(ss))

Texts == { Concat(ps) : ps \in SeqsUpTo(TextPieces, MaxTextLen) }

(***************************************************************************)
(* Initial states.                                                         *)
(***************************************************************************)
FilterIdle ==
    /\ input_file = << >>
    /\ pos = 0
    /\ inside_managed_fields = FALSE
    /\ lines = << >>
    /\ origin = << >>

MainIdle ==
    /\ use_colors = FALSE
    /\ old_names = { }
    /\ new_names = { }
    /\ todo = { }
    /\ diff_pairs = << >>
    /\ calls = << >>

TableIdle ==
    /\ text = << >>
    /\ tabulated = << >>

\* main, after the two walks and the reading of the environment
Init ==
    /\ FilterIdle
    /\ TableIdle
    /\ strip_managed_fields \in BOOLEAN
    /\ use_colors \in BOOLEAN
    /\ old_names \in SUBSET NamePool
    /\ new_names \in SUBSET NamePool
    /\ Cardinality(old_names \cup new_names) <= MaxNames
    /\ todo = old_names \cup new_names
    /\ diff_pairs = << >>
    /\ pc = "loop"
    /\ calls = << >>
    /\ stdout = << >>

\* main over two trees that hold the one file "a"
InitDiff ==
    /\ FilterIdle
    /\ TableIdle
    /\ strip_managed_fields = FALSE
    /\ use_colors \in BOOLEAN
    /\ old_names = { << "a" >> }
    /\ new_names = { << "a" >> }
    /\ todo = old_names \cup new_names
    /\ diff_pairs = << >>
    /\ pc = "loop"
    /\ calls = << >>
    /\ stdout = << >>

\* get_lines, at its entry
InitFilter ==
    /\ MainIdle
    /\ TableIdle
    /\ input_file \in { f \in SeqsUpTo(FilterLinePool, MaxFileLines) : IsFile(f) }
                      \cup ExampleFiles
    /\ strip_managed_fields \in BOOLEAN
    /\ pos = 0
    /\ inside_managed_fields = FALSE
    /\ lines = << >>
    /\ origin = << >>
    /\ pc = "get_lines"
    /\ stdout = << >>

\* pretty_table, at its entry
InitTable ==
    /\ FilterIdle
    /\ MainIdle
    /\ strip_managed_fields = FALSE
    /\ text \in Texts
    /\ tabulated = << >>
    /\ pc = "pretty_table"
    /\ stdout = << >>

(***************************************************************************)
(* Actions.                                                                *)
(***************************************************************************)
\* one iteration of `for name in old_names | new_names`; a set has no order
MainLoop ==
    /\ pc = "loop"
    /\ \E name \in todo :
          /\ diff_pairs' = Append(diff_pairs, MakePair(name, old_names, new_names))
          /\ todo' = todo \ { name }
    /\ UNCHANGED << filter_vars, strip_managed_fields, use_colors, old_names, new_names,
                    pc, calls, stdout, text, tabulated >>

\* diff_pairs.sort(key=lambda r: r[0])
MainSort ==
    /\ pc = "loop"
    /\ todo = { }
    /\ diff_pairs' = SortPairs(diff_pairs)
    /\ pc' = "diff"
    /\ UNCHANGED << filter_vars, strip_managed_fields, use_colors, old_names, new_names,
                    todo, calls, stdout, text, tabulated >>

\* the files open(path) can yield: none when no file is at the path
FilesAt(path, name, names, pool) ==
    IF path = None THEN { << >> }
    ELSE IF name \in names THEN pool
    ELSE { }

\* one iteration of `for diff_pair in diff_pairs`: a call of diff_files
MainDiff(pool) ==
    /\ pc = "diff"
    /\ Len(calls) < Len(diff_pairs)
    /\ LET p    == diff_pairs[Len(calls) + 1]
           olds == FilesAt(p.old_path, p.name, old_names, pool)
           news == FilesAt(p.new_path, p.name, new_names, pool)
       IN  IF olds = { } \/ news = { }
           THEN \* open() raises and the run ends
                /\ pc' = "raised"
                /\ UNCHANGED << calls, stdout >>
           ELSE \E old_file \in olds, new_file \in news :
                  LET call == diff_files(p.name, p.old_path, p.new_path, old_file, new_file,
                                         use_colors, strip_managed_fields)
                  IN  /\ calls' = Append(calls, call)
                      /\ stdout' = stdout \o Flatten(call.printed)
                      /\ pc' = pc
    /\ UNCHANGED << filter_vars, strip_managed_fields, use_colors, old_names, new_names,
                    todo, diff_pairs, text, tabulated >>

\* the loop over diff_pairs is exhausted and main returns
MainExit ==
    /\ pc = "diff"
    /\ Len(calls) = Len(diff_pairs)
    /\ pc' = "done"
    /\ UNCHANGED << filter_vars, main_vars, strip_managed_fields, stdout, text, tabulated >>

\* one iteration of get_lines' `for line in input_file`
GetLinesStep ==
    /\ pc = "get_lines"
    /\ pos < Len(input_file)
    /\ LET st == LineStep([ inside |-> inside_managed_fields, lines |-> lines,
                            origin |-> origin ],
                          input_file[pos + 1], pos + 1, strip_managed_fields)
       IN  /\ inside_managed_fields' = st.inside
           /\ lines' = st.lines
           /\ origin' = st.origin
    /\ pos' = pos + 1
    /\ UNCHANGED << input_file, main_vars, strip_managed_fields, pc, stdout, text, tabulated >>

\* get_lines returns
GetLinesReturn ==
    /\ pc = "get_lines"
    /\ pos = Len(input_file)
    /\ pc' = "returned"
    /\ UNCHANGED << filter_vars, main_vars, strip_managed_fields, stdout, text, tabulated >>

\* a call of pretty_table(text)
PrettyTable ==
    /\ pc = "pretty_table"
    /\ LET r == pretty_table(text)
       IN  /\ stdout' = stdout \o r.out
           /\ tabulated' = tabulated \o r.tab
    /\ pc' = "done"
    /\ UNCHANGED << filter_vars, main_vars, strip_managed_fields, text >>

Next       == MainLoop \/ MainSort \/ MainDiff(RawFiles) \/ MainExit
NextDiff   == MainLoop \/ MainSort \/ MainDiff(DiffFiles) \/ MainExit
NextFilter == GetLinesStep \/ GetLinesReturn
NextTable  == PrettyTable

Spec       == Init /\ [][Next]_vars
SpecDiff   == InitDiff /\ [][NextDiff]_vars
SpecFilter == InitFilter /\ [][NextFilter]_vars
SpecTable  == InitTable /\ [][NextTable]_vars

(***************************************************************************)
(* Properties of get_lines (SpecFilter).                                   *)
(***************************************************************************)
Range(f) == { f[k] : k \in DOMAIN f }

\* the input lines consumed so far that were not emitted
Dropped == (1..pos) \ Range(origin)

\* the emitted lines are the lines not dropped, in their order, each as it
\* was read or cut after its first MAX_LINE_LEN characters
EmittedInOrder ==
    /\ Len(origin) = Len(lines)
    /\ \A k \in 1..Len(origin) : origin[k] \in 1..pos
    /\ \A k \in 1..(Len(origin) - 1) : origin[k] < origin[k + 1]
    /\ \A k \in 1..Len(lines) :
          LET src == input_file[origin[k]]
          IN  IF Len(src) <= MAX_LINE_LEN THEN lines[k] = src
              ELSE SubSeq(lines[k], 1, MAX_LINE_LEN) = SubSeq(src, 1, MAX_LINE_LEN)

ContinuesBlock(i) ==
    /\ \/ StartsWith(input_file[i], << " ", " ", "-" >>)
       \/ StartsWith(input_file[i], << " ", " ", " " >>)
    /\ i > 1
    /\ (i - 1) \in Dropped

\* C1 as stated: with strip_managed_fields, line i is dropped iff it is exactly
\* the marker `  managedFields:` (line terminator aside) or a continuation line
\* whose predecessor was dropped; every other line is emitted, in order.
C1_ExactMarker ==
    strip_managed_fields =>
        /\ \A i \in 1..pos :
              i \in Dropped <=>
                  \/ input_file[i] \in { ManagedFieldsMarker, ManagedFieldsMarker \o << NL >> }
                  \/ ContinuesBlock(i)
        /\ EmittedInOrder

\* C1 amended: with strip_managed_fields, line i is dropped iff it starts with
\* the marker `  managedFields:` (whatever follows it on the line) or it is a
\* continuation line whose predecessor was dropped; every other line is
\* emitted, in order; without strip_managed_fields no line is dropped.
C1_PrefixMarker ==
    /\ strip_managed_fields =>
          \A i \in 1..pos :
              i \in Dropped <=>
                  \/ StartsWith(input_file[i], ManagedFieldsMarker)
                  \/ ContinuesBlock(i)
    /\ ~strip_managed_fields => Dropped = { }
    /\ EmittedInOrder

\* a block of two lines was dropped and the line that ended it was kept;
\* and a block that ran to the end of the file was dropped in full
C1_Witness ==
    /\ strip_managed_fields
    /\ pc = "returned"
    /\ pos = 6
    /\ Dropped = { 1, 2, 3, 5, 6 }
    /\ lines = << << " ", " ", "n", "a", "m", "e", ":", " ", "x", NL >> >>

\* C6 as stated: the truncation applied again to an emitted line returns it
\* unchanged, for lines that were truncated too.
C6_Idempotent ==
    \A k \in 1..Len(lines) : Truncate(lines[k]) = lines[k]

\* C6 amended: the truncation applied again leaves an emitted line unchanged
\* iff the line was not truncated (its input had at most MAX_LINE_LEN
\* characters) or exactly 22 characters of it were omitted; every other
\* truncated line is longer than MAX_LINE_LEN and is cut again, to another marker.
C6_IdempotentUntruncated ==
    \A k \in 1..Len(lines) :
        LET n == Len(input_file[origin[k]])
        IN  /\ (Truncate(lines[k]) = lines[k]) <=> (n <= MAX_LINE_LEN \/ n - MAX_LINE_LEN = 22)
            /\ n > MAX_LINE_LEN => Len(lines[k]) > MAX_LINE_LEN

C6_Witness ==
    /\ pc = "returned"
    /\ \E k \in 1..Len(lines) :
          Len(input_file[origin[k]]) = MAX_LINE_LEN /\ Truncate(lines[k]) = lines[k]
    /\ \E k \in 1..Len(lines) :
          Len(input_file[origin[k]]) > MAX_LINE_LEN /\ Truncate(lines[k]) /= lines[k]

\* two emitted lines whose inputs are both longer than MAX_LINE_LEN and agree
\* on their first MAX_LINE_LEN characters
SamePrefixLong(j, k) ==
    LET s == input_file[origin[j]]
        t == input_file[origin[k]]
    IN  /\ Len(s) > MAX_LINE_LEN
        /\ Len(t) > MAX_LINE_LEN
        /\ SubSeq(s, 1, MAX_LINE_LEN) = SubSeq(t, 1, MAX_LINE_LEN)

\* C7 as stated: two lines longer than MAX_LINE_LEN that agree on their first
\* MAX_LINE_LEN characters are emitted as equal strings, whether they differ
\* in content or in length.
C7_EqualBeyondBoundary ==
    \A j, k \in 1..Len(lines) : SamePrefixLong(j, k) => lines[j] = lines[k]

\* C7 amended: two such lines are emitted as equal strings iff they have the
\* same length (the marker states the number of omitted characters).
C7_EqualIffSameLength ==
    \A j, k \in 1..Len(lines) :
        SamePrefixLong(j, k) =>
            (lines[j] = lines[k] <=> Len(input_file[origin[j]]) = Len(input_file[origin[k]]))

C7_Witness ==
    /\ pc = "returned"
    /\ \E j, k \in 1..Len(lines) :
          /\ SamePrefixLong(j, k)
          /\ input_file[origin[j]] /= input_file[origin[k]]
          /\ lines[j] = lines[k]

(***************************************************************************)
(* Properties of main and diff_files (Spec, SpecDiff).                     *)
(***************************************************************************)
\* C2: the pairs main processes hold each name of old_names | new_names
\* exactly once, in strictly ascending order of name, and diff_files is called
\* (and prints) in that order.
C2_SortedPairs ==
    pc \in { "diff", "done" } =>
        /\ Len(diff_pairs) = Cardinality(old_names \cup new_names)
        /\ { diff_pairs[k].name : k \in 1..Len(diff_pairs) } = old_names \cup new_names
        /\ \A k \in 1..(Len(diff_pairs) - 1) :
              StrLess(diff_pairs[k].name, diff_pairs[k + 1].name)
        /\ Len(calls) <= Len(diff_pairs)
        /\ \A k \in 1..Len(calls) : calls[k].name = diff_pairs[k].name
        /\ stdout = Flatten([ k \in 1..Len(calls) |-> Flatten(calls[k].printed) ])

C2_Witness ==
    /\ pc = "done"
    /\ Len(calls) = 2
    /\ \A k \in 1..2 : Flatten(calls[k].printed) /= << >>

\* C3: a name only in the new tree gets a pair with old_path None and new_path
\* present, and its diff is the file header, one hunk header and every line
\* of the filtered new file as an insertion: no context line, no deletion.
C3_NewOnlyAllInsertions ==
    /\ \A k \in 1..Len(diff_pairs) :
          diff_pairs[k].name \in new_names \ old_names =>
              /\ diff_pairs[k].old_path = None
              /\ diff_pairs[k].new_path = PathJoin(NewRoot, diff_pairs[k].name)
    /\ \A k \in 1..Len(calls) :
          LET c == calls[k]
          IN  c.name \in new_names \ old_names =>
                /\ c.old_lines = << >>
                /\ \A d \in 1..Len(c.diff) : c.diff[d].kind \notin { "context", "delete" }
                /\ c.new_lines /= << >> =>
                      /\ Len(c.diff) = 3 + Len(c.new_lines)
                      /\ c.diff[1].kind = "fromfile"
                      /\ c.diff[2].kind = "tofile"
                      /\ c.diff[3].kind = "hunk"
                      /\ \A i \in 1..Len(c.new_lines) :
                            /\ c.diff[3 + i].kind = "insert"
                            /\ c.diff[3 + i].text = << "+" >> \o c.new_lines[i]

C3_Witness ==
    \E k \in 1..Len(calls) :
        /\ calls[k].name \in new_names \ old_names
        /\ Len(calls[k].new_lines) >= 2
        /\ Len(calls[k].diff) = 3 + Len(calls[k].new_lines)

\* C4: diffing a line sequence against itself yields an empty diff and
\* diff_files prints nothing for the pair; a run whose pairs are all
\* identical after filtering prints nothing at all.
C4_IdenticalPrintsNothing ==
    /\ \A k \in 1..Len(calls) :
          calls[k].old_lines = calls[k].new_lines =>
              /\ calls[k].diff = << >>
              /\ Flatten(calls[k].printed) = << >>
    /\ (pc = "done" /\ \A k \in 1..Len(calls) : calls[k].old_lines = calls[k].new_lines)
          => stdout = << >>

C4_Witness ==
    /\ pc = "done"
    /\ Len(calls) = 2
    /\ \A k \in 1..2 : calls[k].old_lines = calls[k].new_lines /\ calls[k].old_lines /= << >>
    /\ stdout = << >>

\* the lines of the diff of the given kinds, without their prefix character;
\* h = 0 takes them from every hunk, in hunk order
Side(diff, kinds, h) ==
    LET sel == SelectSeq(diff, LAMBDA d : d.kind \in kinds /\ (h = 0 \/ d.hunk = h))
    IN  [ k \in 1..Len(sel) |-> Tail(sel[k].text) ]

\* C5 as stated: for old and new that differ, the insert and context lines of
\* all hunks reproduce the full new sequence, the delete and context lines
\* the full old sequence.
C5_FullReconstruction ==
    \A k \in 1..Len(calls) :
        calls[k].old_lines /= calls[k].new_lines =>
            /\ Side(calls[k].diff, { "insert", "context" }, 0) = calls[k].new_lines
            /\ Side(calls[k].diff, { "delete", "context" }, 0) = calls[k].old_lines

\* C5 amended: the insert and context lines of each hunk reproduce the slice
\* of the new sequence that the hunk's range names, the delete and context
\* lines the slice of the old sequence; the hunks are in ascending order and
\* do not overlap, and each keeps at most 3 lines of context before its
\* first and after its last change, so lines farther from every change are
\* in no hunk.
C5_HunkReconstruction ==
    \A k \in 1..Len(calls) :
        LET c == calls[k]
        IN  /\ c.old_lines /= c.new_lines => c.groups /= << >>
            /\ \A h \in 1..Len(c.groups) :
                  LET first == c.groups[h][1]
                      last  == c.groups[h][Len(c.groups[h])]
                  IN  /\ Side(c.diff, { "insert", "context" }, h)
                            = SubSeq(c.new_lines, first.j1 + 1, last.j2)
                      /\ Side(c.diff, { "delete", "context" }, h)
                            = SubSeq(c.old_lines, first.i1 + 1, last.i2)
                      /\ first.tag = "equal" => first.i2 - first.i1 <= 3
                      /\ last.tag = "equal" => last.i2 - last.i1 <= 3
                      /\ h < Len(c.groups) =>
                            /\ last.i2 <= c.groups[h + 1][1].i1
                            /\ last.j2 <= c.groups[h + 1][1].j1

\* a diff of two hunks
C5_Witness ==
    \E k \in 1..Len(calls) :
        /\ calls[k].old_lines /= calls[k].new_lines
        /\ Len(calls[k].groups) = 2
        /\ Side(calls[k].diff, { "insert", "context" }, 0) /= calls[k].new_lines

\* C8: with colors, every hunk header that diff_files prints is wrapped in
\* OKBLUE ... ENDC.
C8_HunkHeaderBlue ==
    use_colors =>
        \A k \in 1..Len(calls) :
            \A d \in 1..Len(calls[k].diff) :
                calls[k].diff[d].kind = "hunk" =>
                    calls[k].printed[d] = << OKBLUE \o rstrip(calls[k].diff[d].text) \o ENDC >>

\* C10: diff_files prints one line for each line of the diff, and a context
\* line with its leading space and no color, a blank one too.
C10_EveryLinePrintedOnce ==
    \A k \in 1..Len(calls) :
        \A d \in 1..Len(calls[k].diff) :
            /\ Len(calls[k].printed[d]) = 1
            /\ calls[k].diff[d].kind = "context" =>
                  StartsWith(calls[k].printed[d][1], << " " >>)

(***************************************************************************)
(* Properties of pretty_table (SpecTable).                                 *)
(***************************************************************************)
NonEmptyLines(t) == SelectSeq(Split(t, NL), LAMBDA l : l /= << >>)

\* C9 as stated: pretty_table prints `None found` whenever the text has at
\* most one non-empty line, and a table only when a data row follows the header.
C9_NoneFoundWithoutDataRows ==
    pc = "done" =>
        ((stdout = << NoneFound >> /\ tabulated = << >>) <=> Len(NonEmptyLines(text)) <= 1)

\* C9 amended: pretty_table prints `None found` exactly when the text has no
\* non-empty line; with at least one it hands the first non-empty line as
\* headers and the others as rows to tabulate, no row for a header only
\* (`NODE SELECTOR` is made one header only on the very first line of the text).
C9_NoneFoundWithoutAnyLine ==
    pc = "done" =>
        LET ls == NonEmptyLines(text)
        IN  IF ls = << >>
            THEN stdout = << NoneFound >> /\ tabulated = << >>
            ELSE /\ stdout = << << >> >>
                 /\ Len(tabulated) = 1
                 /\ Len(tabulated[1].rows) = Len(ls) - 1
                 /\ tabulated[1].headers =
                       Components(IF text[1] /= NL
                                  THEN Replace(ls[1], NodeSelector, NodeSelector1)
                                  ELSE ls[1])

\* a header row alone: a table of no rows
C9_Witness ==
    /\ pc = "done"
    /\ Len(NonEmptyLines(text)) = 1
    /\ Len(tabulated) = 1
    /\ tabulated[1].rows = << >>
    /\ tabulated[1].headers /= << >>

====
